---------------------------- MODULE Spec2Model ----------------------------
(***************************************************************************)
(* HelixAI verifiable sample ledger.                                       *)
(*                                                                         *)
(*   contracts/SampleTracker.sol         the on-chain ledger contract      *)
(*   src/context/BlockchainContext.tsx   the record operations and the     *)
(*                                       transaction submitter             *)
(*   server (unnamed/part_015)           the MongoDB replica               *)
(*                                                                         *)
(* A record operation is an async function: it is modelled as a process    *)
(* whose steps are the code between two awaits.  The callbacks close over  *)
(* the values of one render (samples, isLoading); `view` is the render     *)
(* whose callbacks the caller holds.                                       *)
(***************************************************************************)
EXTENDS Integers, Sequences, FiniteSets, TLC

\* ------------------------------------------------------------------ bounds
MaxClock == 1          \* the clock readings are 0..MaxClock (milliseconds)
MaxInFlight == 2       \* operations that can be between invocation and return
MaxCalls == 2          \* Spec: record operations invoked in one behaviour
MaxFaults == 1         \* Spec: requests the network, wallet or server fails
MaxSubmitCalls == 1    \* SubmitSpec: sendBlockchainTx calls
MaxSubmitFaults == 3   \* SubmitSpec: requests that fail
MaxBusyCalls == 1        \* record operations started under BusySpec
MaxBusyFaults == 4       \* failing requests under BusySpec
MaxLedgerCalls == 2    \* LedgerSpec: recordStep calls
MaxReplicaCalls == 3    \* ReplicaSpec: requests the server handles
MaxWalletEvents == 3    \* WalletSpec: user actions and MetaMask events

Procs == 1..MaxInFlight
Times == 0..MaxClock

\* ------------------------------------------------------ values of the code
NoTx == 0                      \* null / undefined / '' transaction hash
ZeroHash == <<>>               \* bytes32(0)
NoHash == <<"undefined">>      \* hashes[hashes.length - 1] of an empty array
DefaultGas == 100000           \* let gasEstimate = 100000n
EstimatedGas == 50000          \* a value answered by estimateGas
Account == "0xA"               \* the account of the connected wallet
Payloads == {"payload"}        \* the step payload is opaque to the ledger

StatusOf(step) ==
    CASE step = 1 -> "collected"
      [] step = 2 -> "in-transit"
      [] step = 3 -> "sequenced"
      [] step = 4 -> "completed"

TypeOf(step) ==
    CASE step = 1 -> "COLLECTION"
      [] step = 2 -> "TRANSPORT"
      [] step = 3 -> "SEQUENCING"
      [] step = 4 -> "AI_ANALYSIS"

\* `HELIX-${Date.now().toString(36).toUpperCase()}`: a function of the clock
SampleIdOf(now) == <<"HELIX", now>>

\* an earlier session of the application ran at PriorTime
PriorTime == -1

SampleIds == {SampleIdOf(t) : t \in Times \cup {PriorTime}}

\* CryptoJS.SHA256(JSON.stringify(data) + Date.now()): an injective digest
\* of the data and of the clock reading taken inside the function
generateHash(data, now) == <<"sha256", data, now>>

\* ethers.keccak256(ethers.toUtf8Bytes(hash)): never bytes32(0)
Keccak(hash) == <<"keccak256", hash>>

Last(s) == IF Len(s) = 0 THEN NoHash ELSE s[Len(s)]

\* ------------------------------------------------------------------- state
VARIABLES
    clock,          \* the last reading of Date.now()
    ledger,         \* SampleTracker.samples : sampleId -> SampleRecord
    events,         \* the events the contract emitted
    chainTxs,       \* the transactions mined on the chain, by transaction id
    samples,        \* React state: Sample[]
    transactions,   \* React state: Transaction[]
    isLoading,      \* React state
    view,           \* the render the caller's callbacks close over
    refreshed,      \* the refreshSamples of the mount effect has answered
    contractAddress,\* process.env.REACT_APP_CONTRACT_ADDRESS is set
    replica,        \* MongoDB: the Sample and Transaction collections
    ops,            \* the record operations in flight
    calls,          \* record operations invoked so far
    faults,         \* requests that failed so far
    budget,         \* the behaviour's bounds on calls and faults
    ledgerCalls,    \* recordStep calls made by other callers so far
    lastCall,       \* the last such call and whether it reverted
    wallet          \* WalletProvider: its React state and pending promises

vars == <<clock, ledger, events, chainTxs, samples, transactions, isLoading,
          view, refreshed, contractAddress, replica, ops, calls, faults,
          budget, ledgerCalls, lastCall, wallet>>

clientVars == <<samples, transactions, isLoading, view, refreshed,
                contractAddress, replica, ops, calls, faults, budget, wallet>>

\* a request fails: n more failures, within the bound
Fail(n) == /\ faults + n <= budget.faults
           /\ faults' = faults + n

\* Date.now(), new Date(), block.timestamp: time does not run backwards
After(t) == {u \in Times : u >= t /\ u <= t + 1}

Readings == After(clock)

\* ------------------------------------------- contracts/SampleTracker.sol
EmptyRecord ==
    [collectionHash |-> ZeroHash, transportHash |-> ZeroHash,
     sequencingHash |-> ZeroHash, analysisHash |-> ZeroHash,
     createdAt |-> 0, lastUpdated |-> 0, createdBy |-> "0x0",
     currentStep |-> 0]

StepRecorded(sampleId, step, hash, recorder) ==
    [name |-> "StepRecorded", sampleId |-> sampleId, step |-> step,
     hash |-> hash, who |-> recorder]

SampleCreated(sampleId, creator) ==
    [name |-> "SampleCreated", sampleId |-> sampleId, step |-> 0,
     hash |-> ZeroHash, who |-> creator]

\* a failed require that still stamps every record
Reverted_NotRolledBack(led, evs, reason) ==
    [reverted |-> TRUE, reason |-> reason,
     ledger |-> [s \in DOMAIN led |-> [led[s] EXCEPT !.lastUpdated = @ + 1]],
     events |-> evs]

Reverted(led, evs, reason) ==
    [reverted |-> TRUE, reason |-> reason, ledger |-> led, events |-> evs]

\* a recordStep without require(step >= 1 && step <= 4)
recordStep_NoStepCheck(led, evs, sampleId, step, hash, msgSender, blockTimestamp) ==
    IF hash = ZeroHash THEN Reverted(led, evs, "Hash cannot be empty")
    ELSE
      LET record == led[sampleId]
          isNew == record.createdAt = 0
          r1 == IF isNew
                THEN [record EXCEPT !.createdAt = blockTimestamp,
                                    !.createdBy = msgSender]
                ELSE record
          r2 == CASE step = 1 -> [r1 EXCEPT !.collectionHash = hash]
                  [] step = 2 -> [r1 EXCEPT !.transportHash = hash]
                  [] step = 3 -> [r1 EXCEPT !.sequencingHash = hash]
                  [] step = 4 -> [r1 EXCEPT !.analysisHash = hash]
                  [] OTHER -> r1
          r3 == [r2 EXCEPT !.currentStep = step,
                           !.lastUpdated = blockTimestamp]
      IN  [reverted |-> FALSE, reason |-> "",
           ledger |-> [led EXCEPT ![sampleId] = r3],
           events |-> evs
                      \o (IF isNew THEN <<SampleCreated(sampleId, msgSender)>>
                                   ELSE <<>>)
                      \o <<StepRecorded(sampleId, step, hash, msgSender)>>]

\* recordStep(sampleId, step, hash) called by msgSender in a block stamped
\* blockTimestamp (> 0): the contract's storage and events after the call
recordStep(led, evs, sampleId, step, hash, msgSender, blockTimestamp) ==
    IF ~(step >= 1 /\ step <= 4) THEN Reverted(led, evs, "Invalid step number")
    ELSE IF hash = ZeroHash THEN Reverted(led, evs, "Hash cannot be empty")
    ELSE
      LET record == led[sampleId]
          isNew == record.createdAt = 0
          r1 == IF isNew
                THEN [record EXCEPT !.createdAt = blockTimestamp,
                                    !.createdBy = msgSender]
                ELSE record
          r2 == CASE step = 1 -> [r1 EXCEPT !.collectionHash = hash]
                  [] step = 2 -> [r1 EXCEPT !.transportHash = hash]
                  [] step = 3 -> [r1 EXCEPT !.sequencingHash = hash]
                  [] step = 4 -> [r1 EXCEPT !.analysisHash = hash]
          r3 == [r2 EXCEPT !.currentStep = step,
                           !.lastUpdated = blockTimestamp]
      IN  [reverted |-> FALSE, reason |-> "",
           ledger |-> [led EXCEPT ![sampleId] = r3],
           events |-> evs
                      \o (IF isNew THEN <<SampleCreated(sampleId, msgSender)>>
                                   ELSE <<>>)
                      \o <<StepRecorded(sampleId, step, hash, msgSender)>>]

HashOfStep(record, step) ==
    CASE step = 1 -> record.collectionHash
      [] step = 2 -> record.transportHash
      [] step = 3 -> record.sequencingHash
      [] step = 4 -> record.analysisHash
      [] OTHER -> ZeroHash

\* a verifyStep that accepts the hash of any step of the sample
verifyStep_AnyStep(led, sampleId, step, hash) ==
    IF step \in 1..4
    THEN \E k \in 1..4 : HashOfStep(led[sampleId], k) = hash
    ELSE FALSE

verifyStep(led, sampleId, step, hash) ==
    IF step \in 1..4 THEN HashOfStep(led[sampleId], step) = hash ELSE FALSE

getCurrentStep(led, sampleId) == led[sampleId].currentStep

getSample(led, sampleId) ==
    <<led[sampleId].collectionHash, led[sampleId].transportHash,
      led[sampleId].sequencingHash, led[sampleId].analysisHash,
      led[sampleId].createdAt>>

\* the callers of the contract-only specification: any account may call
\* recordStep with any arguments
Callers == {Account, "0xB"}
CallSteps == 0..5
CallHashes == {ZeroHash, Keccak(<<"a">>), Keccak(<<"b">>)}
NoCall == [sampleId |-> SampleIdOf(0), step |-> 0, hash |-> ZeroHash,
           who |-> "0x0", reverted |-> TRUE]

\* a mined transaction; its transaction hash is its position in chainTxs
MinedTx(kind, ok, sender) == [kind |-> kind, ok |-> ok, sender |-> sender]

\* block.timestamp of the next block: positive and increasing
BlockTimestamp == Len(chainTxs) + 1

CallRecordStep(sampleId, step, hash, msgSender) ==
    /\ ledgerCalls < MaxLedgerCalls
    /\ LET r == recordStep(ledger, events, sampleId, step, hash, msgSender,
                           BlockTimestamp)
       IN  /\ ledger' = r.ledger
           /\ events' = r.events
           /\ chainTxs' = Append(chainTxs,
                                 MinedTx("recordStep", ~r.reverted, msgSender))
           /\ lastCall' = [sampleId |-> sampleId, step |-> step,
                           hash |-> hash, who |-> msgSender,
                           reverted |-> r.reverted]
    /\ ledgerCalls' = ledgerCalls + 1
    /\ UNCHANGED <<clock, clientVars>>

\* --------------------------- src/context/BlockchainContext.tsx: the data
\* an entry that is marked verified whatever the submitter returned
TimelineEntry_AlwaysVerified(step, hash, txHash, timestamp) ==
    [step |-> step, hash |-> hash, txHash |-> txHash, timestamp |-> timestamp,
     verified |-> TRUE]

TimelineEntry(step, hash, txHash, timestamp) ==
    [step |-> step, hash |-> hash, txHash |-> txHash, timestamp |-> timestamp,
     verified |-> (txHash # NoTx)]

\* (patientId, details, data and walletAddress ride along: no step reads them)
Transaction(id, step, sampleId, hash, txHash, timestamp) ==
    [id |-> id, type |-> TypeOf(step), sampleId |-> sampleId, hash |-> hash,
     txHash |-> txHash, timestamp |-> timestamp]

\* `TX-${Date.now()}`
TransactionIdOf(now) == <<"TX", now>>

\* samples.find(s => s.sampleId === sampleId): the index of the first match,
\* 0 when there is none
RECURSIVE FindFrom(_, _, _)
FindFrom(list, sampleId, i) ==
    IF i > Len(list) THEN 0
    ELSE IF list[i].sampleId = sampleId THEN i
    ELSE FindFrom(list, sampleId, i + 1)

Find(list, sampleId) == FindFrom(list, sampleId, 1)

\* an invocation takes the first free slot
FreeSlot(p) ==
    /\ ops[p].pc = "idle"
    /\ \A q \in Procs : q < p => ops[q].pc # "idle"

\* useWallet() before any account is connected
NoWallet == [isConnected |-> FALSE, isAmoyNetwork |-> FALSE, signer |-> FALSE]

\* an operation that is not running; result is how its last run ended
IdleOp ==
    [pc |-> "idle", step |-> 0, sampleId |-> SampleIdOf(0), hash |-> NoHash,
     timestamp |-> 0, seenStep |-> 0, ret |-> "none", txHash |-> NoTx,
     gas |-> 0, sentRecordStep |-> 0, sentFallback |-> 0, txId |-> <<"TX", 0>>,
     wallet |-> NoWallet, result |-> "none"]

Ended(result) == [IdleOp EXCEPT !.result = result]

\* ------------------------------------------------------ sendBlockchainTx
\* `return x` and an exception leaving sendBlockchainTx
Return(o, tx) ==
    [o EXCEPT !.pc = "afterSend", !.ret = "returned", !.txHash = tx, !.gas = 0]

Throw(o) == [o EXCEPT !.pc = "afterSend", !.ret = "threw", !.gas = 0]

\* the catch clauses
\* an estimation failure that is treated as a failure of the primary path
EstimateCatch_Aborts(o) == [o EXCEPT !.pc = "fallback", !.gas = 0]

EstimateCatch(o) == [o EXCEPT !.pc = "recordStep", !.gas = DefaultGas]

\* gasLimit: gasEstimate + (gasEstimate / 10n)
GasLimit(gasEstimate) == gasEstimate + (gasEstimate \div 10)

\* a primary catch clause that gives up without the fallback payment
PrimaryCatch_NoFallback(o) == Return(o, NoTx)

PrimaryCatch(o) == [o EXCEPT !.pc = "fallback", !.gas = 0]

\* a fallback whose failure is not caught
FallbackCatch_Rethrows(o) == Throw(o)

FallbackCatch(o) == Return(o, NoTx)

\* a payment that is sent again when it fails
PaymentCatch_Retries(o) == [o EXCEPT !.pc = "payment"]

PaymentCatch(o) == Return(o, NoTx)

\* getContract(): null without an address or without a signer
getContract(w, hasAddress) == hasAddress /\ w.signer

\* the code of sendBlockchainTx up to its first await
\* a prologue without the network check
SendPrologue_NoNetworkCheck(o, w, hasAddress) ==
    LET c == [o EXCEPT !.wallet = w]
    IN  IF ~w.isConnected THEN Return(c, NoTx)
        ELSE IF ~w.signer THEN Return(c, NoTx)
        ELSE IF ~getContract(w, hasAddress) THEN [c EXCEPT !.pc = "payment"]
        ELSE [c EXCEPT !.pc = "estimate", !.gas = DefaultGas]

\* (o.wallet: the isConnected, isAmoyNetwork and signer the callback closed
\* over, kept until the caller resumes)
SendPrologue(o, w, hasAddress) ==
    LET c == [o EXCEPT !.wallet = w]
    IN  IF ~w.isConnected THEN Return(c, NoTx)
        ELSE IF ~w.isAmoyNetwork THEN Return(c, NoTx)
        ELSE IF ~w.signer THEN Return(c, NoTx)
        ELSE IF ~getContract(w, hasAddress) THEN [c EXCEPT !.pc = "payment"]
        ELSE [c EXCEPT !.pc = "estimate", !.gas = DefaultGas]

\* -------------------------------------------- the replica server's handlers
\* POST /api/samples: findOneAndUpdate({sampleId}, {sampleId, ...data},
\* {upsert: true})
PostSample(rep, sample) ==
    LET i == Find(rep.samples, sample.sampleId)
    IN  IF i = 0
        THEN [rep EXCEPT !.samples = Append(@, sample)]
        ELSE [rep EXCEPT !.samples[i] = sample]

\* PUT /api/samples/:sampleId/step on a stored sample
PutSampleStep(rep, sampleId, step, status, txHash, timelineEntry) ==
    LET i == Find(rep.samples, sampleId)
    IN  [rep EXCEPT !.samples[i] =
            [@ EXCEPT !.currentStep = step,
                      !.status = status,
                      !.timeline = Append(@, timelineEntry),
                      !.txHashes = IF txHash # NoTx THEN Append(@, txHash)
                                   ELSE @]]

\* POST /api/transactions: new Transaction(req.body).save()
PostTransaction(rep, transaction) ==
    [rep EXCEPT !.transactions = Append(@, transaction)]

\* .sort({ key: -1 }): descending, documents with equal keys in stored order
RECURSIVE InsertDesc(_, _, _)
InsertDesc(sorted, doc, key) ==
    IF Len(sorted) = 0 THEN <<doc>>
    ELSE IF Head(sorted)[key] >= doc[key]
         THEN <<Head(sorted)>> \o InsertDesc(Tail(sorted), doc, key)
         ELSE <<doc>> \o sorted

RECURSIVE SortDesc(_, _)
SortDesc(docs, key) ==
    IF Len(docs) = 0 THEN <<>>
    ELSE InsertDesc(SortDesc(SubSeq(docs, 1, Len(docs) - 1), key),
                    docs[Len(docs)], key)

\* ------------------------------------------------- the record operations
\* recordCollection up to its first await
recordCollection(p, payload, w) ==
    /\ FreeSlot(p)
    /\ calls < budget.calls
    /\ calls' = calls + 1
    /\ IF view.isLoading
       THEN /\ ops' = [ops EXCEPT ![p] = Ended("busy")]
            /\ UNCHANGED <<clock, isLoading>>
       ELSE \E timestamp \in Readings : \E now \in After(timestamp) :
              LET hash == generateHash(<<payload, timestamp, "collection">>, now)
                  o == [IdleOp EXCEPT !.step = 1,
                                      !.sampleId = SampleIdOf(now),
                                      !.hash = hash,
                                      !.timestamp = timestamp]
              IN  /\ clock' = now
                  /\ isLoading' = TRUE
                  /\ ops' = [ops EXCEPT
                              ![p] = SendPrologue(o, w, contractAddress)]
    /\ UNCHANGED <<ledger, events, chainTxs, samples, transactions, view,
                   refreshed, contractAddress, replica, faults, budget,
                   ledgerCalls, lastCall, wallet>>

\* recordTransport (step 2), recordSequencing (step 3) and recordAnalysis
\* (step 4) up to their first await: the three differ in the step number,
\* the status and the payload only
RecordStart(p, step, sampleId, payload, w) ==
    /\ FreeSlot(p)
    /\ calls < budget.calls
    /\ calls' = calls + 1
    /\ IF view.isLoading
       THEN /\ ops' = [ops EXCEPT ![p] = Ended("busy")]
            /\ UNCHANGED <<clock, isLoading>>
       ELSE \E timestamp \in Readings :
            LET i == Find(view.samples, sampleId)
            IN  IF i = 0
                THEN /\ clock' = timestamp
                     /\ isLoading' = FALSE
                     /\ ops' = [ops EXCEPT ![p] = Ended("notFound")]
                ELSE \E now \in After(timestamp) :
                     LET currentSample == view.samples[i]
                         hash == generateHash(
                                   <<sampleId, payload,
                                     Last(currentSample.hashes), timestamp>>,
                                   now)
                         o == [IdleOp EXCEPT
                                 !.step = step,
                                 !.sampleId = sampleId,
                                 !.hash = hash,
                                 !.timestamp = timestamp,
                                 !.seenStep = currentSample.currentStep]
                     IN  /\ clock' = now
                         /\ isLoading' = TRUE
                         /\ ops' = [ops EXCEPT
                               ![p] = SendPrologue(o, w, contractAddress)]
    /\ UNCHANGED <<ledger, events, chainTxs, samples, transactions, view,
                   refreshed, contractAddress, replica, faults, budget,
                   ledgerCalls, lastCall, wallet>>

recordTransport(p, sampleId, payload, w) ==
    RecordStart(p, 2, sampleId, payload, w)

recordSequencing(p, sampleId, payload, w) ==
    RecordStart(p, 3, sampleId, payload, w)

recordAnalysis(p, sampleId, payload, w) ==
    RecordStart(p, 4, sampleId, payload, w)

\* contract.recordStep.estimateGas raced against the 5 s timeout
EstimateGas(p) ==
    /\ ops[p].pc = "estimate"
    /\ \/ /\ ops' = [ops EXCEPT ![p] =
                       [@ EXCEPT !.pc = "recordStep", !.gas = EstimatedGas]]
          /\ UNCHANGED faults
       \/ /\ Fail(1)
          /\ ops' = [ops EXCEPT ![p] = EstimateCatch(@)]
    /\ UNCHANGED <<clock, ledger, events, chainTxs, samples, transactions,
                   isLoading, view, refreshed, contractAddress, replica, calls,
                   budget, ledgerCalls, lastCall, wallet>>

\* contract.recordStep(sampleId, step, hashBytes32, {gasLimit, ...}) and
\* tx.wait(): the wallet or the RPC refuses the transaction, or it is mined
\* and the contract runs
SubmitRecordStep(p) ==
    /\ ops[p].pc = "recordStep"
    /\ \/ /\ Fail(1)
          /\ ops' = [ops EXCEPT ![p] =
                       PrimaryCatch([@ EXCEPT !.sentRecordStep = @ + 1])]
          /\ UNCHANGED <<ledger, events, chainTxs>>
       \/ LET o == ops[p]
              r == recordStep(ledger, events, o.sampleId, o.step,
                              Keccak(o.hash), Account, BlockTimestamp)
              sent == [o EXCEPT !.sentRecordStep = @ + 1]
          IN  /\ ledger' = r.ledger
              /\ events' = r.events
              /\ chainTxs' = Append(chainTxs,
                                    MinedTx("recordStep", ~r.reverted, Account))
              /\ ops' = [ops EXCEPT ![p] =
                           IF r.reverted THEN PrimaryCatch(sent)
                           ELSE Return(sent, Len(chainTxs) + 1)]
              /\ UNCHANGED faults
    /\ UNCHANGED <<clock, samples, transactions, isLoading, view, refreshed,
                   contractAddress, replica, calls, budget, ledgerCalls,
                   lastCall, wallet>>

\* the payment of 0.05 MATIC to the contract address
\* (caught: the call's state after the catch block of a failed payment)
Transfer(p, caught) ==
    /\ \/ /\ Fail(1)
          /\ ops' = [ops EXCEPT ![p] = caught]
          /\ UNCHANGED chainTxs
       \/ /\ chainTxs' = Append(chainTxs, MinedTx("transfer", TRUE, Account))
          /\ ops' = [ops EXCEPT ![p] =
                       Return([@ EXCEPT !.sentFallback = @ + 1],
                              Len(chainTxs) + 1)]
          /\ UNCHANGED faults
    /\ UNCHANGED <<clock, ledger, events, samples, transactions, isLoading,
                   view, refreshed, contractAddress, replica, calls, budget,
                   ledgerCalls, lastCall, wallet>>

\* signer.sendTransaction after recordStep failed
SendFallback(p) ==
    /\ ops[p].pc = "fallback"
    /\ Transfer(p, FallbackCatch([ops[p] EXCEPT !.sentFallback = @ + 1]))

\* signer.sendTransaction when no contract is configured
SendPayment(p) ==
    /\ ops[p].pc = "payment"
    /\ Transfer(p, PaymentCatch([ops[p] EXCEPT !.sentFallback = @ + 1]))

\* the sample recordCollection builds
NewSample(sampleId, hash, txHash, timestamp) ==
    [sampleId |-> sampleId, status |-> StatusOf(1), currentStep |-> 1,
     hashes |-> <<hash>>,
     txHashes |-> IF txHash # NoTx THEN <<txHash>> ELSE <<>>,
     timeline |-> <<TimelineEntry(1, hash, txHash, timestamp)>>,
     createdAt |-> timestamp]

\* the updater of setSamples in recordTransport / Sequencing / Analysis
StepUpdate(sample, step, hash, txHash, timestamp) ==
    [sample EXCEPT !.status = StatusOf(step),
                   !.currentStep = step,
                   !.hashes = Append(@, hash),
                   !.txHashes = Append(@, txHash),
                   !.timeline = Append(@, TimelineEntry(step, hash, txHash,
                                                        timestamp))]

\* an update that is dropped when the submitter returned null
MapSamples_SkipUnanchored(prev, sampleId, step, hash, txHash, timestamp) ==
    [i \in 1..Len(prev) |->
        IF prev[i].sampleId = sampleId /\ txHash # NoTx
        THEN StepUpdate(prev[i], step, hash, txHash, timestamp)
        ELSE prev[i]]

MapSamples(prev, sampleId, step, hash, txHash, timestamp) ==
    [i \in 1..Len(prev) |->
        IF prev[i].sampleId = sampleId
        THEN StepUpdate(prev[i], step, hash, txHash, timestamp)
        ELSE prev[i]]

\* the operation resumes after `await sendBlockchainTx(...)`: a rejected
\* promise ends it there; otherwise recordCollection builds its records and
\* awaits the two POSTs, the other three update the state and await the PUT
AfterSend(p) ==
    /\ ops[p].pc = "afterSend"
    /\ IF ops[p].ret = "threw"
       THEN /\ ops' = [ops EXCEPT ![p] = Ended("threw")]
            /\ UNCHANGED <<clock, samples, transactions>>
       ELSE LET o == ops[p]
                now == clock
            IN  /\ UNCHANGED clock
                /\ IF o.step = 1
                   THEN /\ ops' = [ops EXCEPT ![p] =
                                     [@ EXCEPT !.pc = "save",
                                               !.ret = "none",
                                               !.sentRecordStep = 0,
                                               !.sentFallback = 0,
                                               !.wallet = NoWallet,
                                               !.txId = TransactionIdOf(now)]]
                        /\ UNCHANGED <<samples, transactions>>
                   ELSE /\ samples' = MapSamples(samples, o.sampleId, o.step,
                                                 o.hash, o.txHash, o.timestamp)
                        /\ transactions' = Append(transactions,
                              Transaction(TransactionIdOf(now), o.step,
                                          o.sampleId, o.hash, o.txHash,
                                          o.timestamp))
                        /\ ops' = [ops EXCEPT ![p] =
                                     [@ EXCEPT !.pc = "put",
                                               !.ret = "none",
                                               !.sentRecordStep = 0,
                                               !.sentFallback = 0,
                                               !.wallet = NoWallet,
                                               !.txId = TransactionIdOf(now)]]
    /\ UNCHANGED <<ledger, events, chainTxs, isLoading, view, refreshed,
                   contractAddress, replica, calls, faults, budget,
                   ledgerCalls, lastCall, wallet>>

\* the two POSTs of recordCollection answer (each is stored or fails), then
\* the sample and the transaction are added to the state
SaveCollection(p) ==
    /\ ops[p].pc = "save"
    /\ LET o == ops[p]
           sample == NewSample(o.sampleId, o.hash, o.txHash, o.timestamp)
           transaction == Transaction(o.txId, 1, o.sampleId, o.hash, o.txHash,
                                      o.timestamp)
       IN  /\ \E sampleStored \in BOOLEAN : \E transactionStored \in BOOLEAN :
                LET r1 == IF sampleStored THEN PostSample(replica, sample)
                          ELSE replica
                IN  /\ Fail((IF sampleStored THEN 0 ELSE 1)
                            + (IF transactionStored THEN 0 ELSE 1))
                    /\ replica' = IF transactionStored
                                  THEN PostTransaction(r1, transaction)
                                  ELSE r1
           /\ samples' = Append(samples, sample)
           /\ transactions' = Append(transactions, transaction)
    /\ isLoading' = FALSE
    /\ ops' = [ops EXCEPT ![p] = Ended("ok")]
    /\ UNCHANGED <<clock, ledger, events, chainTxs, view, refreshed,
                   contractAddress, calls, budget, ledgerCalls, lastCall, wallet>>

\* a PUT awaited outside the try block: its failure leaves the operation
\* before setIsLoading(false)
PutStep_Uncaught(p) ==
    /\ ops[p].pc = "put"
    /\ LET o == ops[p]
       IN  \/ /\ Fail(1)
              /\ ops' = [ops EXCEPT ![p] = Ended("threw")]
              /\ UNCHANGED <<replica, isLoading>>
           \/ /\ UNCHANGED faults
              /\ IF Find(replica.samples, o.sampleId) = 0
                 THEN /\ ops' = [ops EXCEPT ![p] = Ended("threw")]
                      /\ UNCHANGED <<replica, isLoading>>
                 ELSE /\ replica' = PutSampleStep(replica, o.sampleId, o.step,
                                        StatusOf(o.step), o.txHash,
                                        TimelineEntry(o.step, o.hash, o.txHash,
                                                      o.timestamp))
                      /\ ops' = [ops EXCEPT ![p].pc = "postTx"]
                      /\ UNCHANGED isLoading
    /\ UNCHANGED <<clock, ledger, events, chainTxs, samples, transactions,
                   view, refreshed, contractAddress, calls, budget,
                   ledgerCalls, lastCall, wallet>>

\* axios.put(.../samples/:sampleId/step): the request fails, or the server
\* answers 404, or the step is stored
PutStep(p) ==
    /\ ops[p].pc = "put"
    /\ LET o == ops[p]
       IN  \/ /\ Fail(1)
              /\ isLoading' = FALSE
              /\ ops' = [ops EXCEPT ![p] = Ended("ok")]
              /\ UNCHANGED replica
           \/ /\ UNCHANGED faults
              /\ IF Find(replica.samples, o.sampleId) = 0
                 THEN /\ isLoading' = FALSE
                      /\ ops' = [ops EXCEPT ![p] = Ended("ok")]
                      /\ UNCHANGED replica
                 ELSE /\ replica' = PutSampleStep(replica, o.sampleId, o.step,
                                        StatusOf(o.step), o.txHash,
                                        TimelineEntry(o.step, o.hash, o.txHash,
                                                      o.timestamp))
                      /\ ops' = [ops EXCEPT ![p].pc = "postTx"]
                      /\ UNCHANGED isLoading
    /\ UNCHANGED <<clock, ledger, events, chainTxs, samples, transactions,
                   view, refreshed, contractAddress, calls, budget,
                   ledgerCalls, lastCall, wallet>>

\* axios.post(.../transactions) answers, then setIsLoading(false)
PostTx(p) ==
    /\ ops[p].pc = "postTx"
    /\ LET o == ops[p]
       IN  \/ /\ Fail(1)
              /\ UNCHANGED replica
           \/ /\ UNCHANGED faults
              /\ replica' = PostTransaction(replica,
                               Transaction(o.txId, o.step, o.sampleId, o.hash,
                                           o.txHash, o.timestamp))
    /\ isLoading' = FALSE
    /\ ops' = [ops EXCEPT ![p] = Ended("ok")]
    /\ UNCHANGED <<clock, ledger, events, chainTxs, samples, transactions,
                   view, refreshed, contractAddress, calls, budget,
                   ledgerCalls, lastCall, wallet>>

\* React renders: the callbacks handed to the pages now close over the
\* current state
Render ==
    /\ view # [samples |-> samples, isLoading |-> isLoading]
    /\ view' = [samples |-> samples, isLoading |-> isLoading]
    /\ UNCHANGED <<clock, ledger, events, chainTxs, samples, transactions,
                   isLoading, refreshed, contractAddress, replica, ops, calls,
                   faults, budget, ledgerCalls, lastCall, wallet>>

\* the mount effect's refreshSamples answers, before the user's first
\* operation: each GET brings its collection or fails ([])
refreshSamples ==
    /\ ~refreshed
    /\ calls = 0
    /\ refreshed' = TRUE
    /\ \E samplesOk \in BOOLEAN : \E transactionsOk \in BOOLEAN :
         /\ Fail((IF samplesOk THEN 0 ELSE 1)
                 + (IF transactionsOk THEN 0 ELSE 1))
         /\ samples' = IF samplesOk THEN SortDesc(replica.samples, "createdAt")
                       ELSE <<>>
         /\ transactions' = IF transactionsOk
                            THEN SortDesc(replica.transactions, "timestamp")
                            ELSE <<>>
    /\ UNCHANGED <<clock, ledger, events, chainTxs, isLoading, view,
                   contractAddress, replica, ops, calls, budget, ledgerCalls,
                   lastCall, wallet>>

\* ---------------------------------------------------------- specifications
Wallets == [isConnected : BOOLEAN, isAmoyNetwork : BOOLEAN, signer : BOOLEAN]

\* what an earlier session left in MongoDB: nothing, or the sample and the
\* transaction of one recordCollection made with no wallet connected
PriorHash == generateHash(<<"payload", PriorTime, "collection">>, PriorTime)

PriorReplica ==
    [samples |-> <<NewSample(SampleIdOf(PriorTime), PriorHash, NoTx,
                             PriorTime)>>,
     transactions |-> <<Transaction(TransactionIdOf(PriorTime), 1,
                                    SampleIdOf(PriorTime), PriorHash, NoTx,
                                    PriorTime)>>]

EmptyReplica == [samples |-> <<>>, transactions |-> <<>>]

\* WalletProvider's initial state: nothing connected, no connectWallet
\* running, no getSigner promise outstanding
Null == "null"

Disconnected ==
    [account |-> Null, chainId |-> Null, provider |-> Null, signer |-> Null,
     isConnecting |-> FALSE, error |-> Null,
     pc |-> "idle", accounts |-> Null, currentChainId |-> Null,
     pending |-> 0, events |-> 0]

\* the provider has mounted: empty React state, nothing in flight, the
\* chain holds no sample yet
Mounted ==
    /\ clock = 0
    /\ ledger = [s \in SampleIds |-> EmptyRecord]
    /\ events = <<>>
    /\ chainTxs = <<>>
    /\ samples = <<>>
    /\ transactions = <<>>
    /\ isLoading = FALSE
    /\ view = [samples |-> <<>>, isLoading |-> FALSE]
    /\ refreshed = FALSE
    /\ contractAddress \in BOOLEAN
    /\ replica \in {EmptyReplica, PriorReplica}
    /\ ops = [p \in Procs |-> IdleOp]
    /\ calls = 0
    /\ faults = 0
    /\ ledgerCalls = 0
    /\ lastCall = NoCall
    /\ wallet = Disconnected

Init ==
    /\ Mounted
    /\ budget = [calls |-> MaxCalls, faults |-> MaxFaults]

Next ==
    \/ \E p \in Procs : \E payload \in Payloads : \E w \in Wallets :
         recordCollection(p, payload, w)
    \/ \E p \in Procs : \E sampleId \in SampleIds : \E payload \in Payloads :
       \E w \in Wallets : recordTransport(p, sampleId, payload, w)
    \/ \E p \in Procs : \E sampleId \in SampleIds : \E payload \in Payloads :
       \E w \in Wallets : recordSequencing(p, sampleId, payload, w)
    \/ \E p \in Procs : \E sampleId \in SampleIds : \E payload \in Payloads :
       \E w \in Wallets : recordAnalysis(p, sampleId, payload, w)
    \/ \E p \in Procs : EstimateGas(p)
    \/ \E p \in Procs : SubmitRecordStep(p)
    \/ \E p \in Procs : SendFallback(p)
    \/ \E p \in Procs : SendPayment(p)
    \/ \E p \in Procs : AfterSend(p)
    \/ \E p \in Procs : SaveCollection(p)
    \/ \E p \in Procs : PutStep(p)
    \/ \E p \in Procs : PostTx(p)
    \/ Render
    \/ refreshSamples

Spec == Init /\ [][Next]_vars

\* the record operations when every awaited wallet, RPC or HTTP call
\* eventually returns or fails: an operation suspended at an await is
\* eventually resumed
Resume(p) ==
    \/ EstimateGas(p)
    \/ SubmitRecordStep(p)
    \/ SendFallback(p)
    \/ SendPayment(p)
    \/ AfterSend(p)
    \/ SaveCollection(p)
    \/ PutStep(p)
    \/ PostTx(p)

BusyInit ==
    /\ Mounted
    /\ budget = [calls |-> MaxBusyCalls, faults |-> MaxBusyFaults]

BusySpec ==
    BusyInit /\ [][Next]_vars /\ \A p \in Procs : WF_vars(Resume(p))

\* sendBlockchainTx alone: a caller invokes it with any sample, step and
\* hash under any wallet, and every request it makes is free to fail
SubmitHashes == {PriorHash, generateHash(<<"payload", 0, "collection">>, 0)}

sendBlockchainTx(p, sampleId, step, hash, w) ==
    /\ FreeSlot(p)
    /\ calls < budget.calls
    /\ calls' = calls + 1
    /\ ops' = [ops EXCEPT ![p] =
                 SendPrologue([IdleOp EXCEPT !.step = step,
                                             !.sampleId = sampleId,
                                             !.hash = hash],
                              w, contractAddress)]
    /\ UNCHANGED <<clock, ledger, events, chainTxs, samples, transactions,
                   isLoading, view, refreshed, contractAddress, replica,
                   faults, budget, ledgerCalls, lastCall, wallet>>

\* the caller's await gets the value, or the exception
TakeResult(p) ==
    /\ ops[p].pc = "afterSend"
    /\ ops' = [ops EXCEPT ![p] =
                 Ended(IF ops[p].ret = "threw" THEN "threw" ELSE "ok")]
    /\ UNCHANGED <<clock, ledger, events, chainTxs, samples, transactions,
                   isLoading, view, refreshed, contractAddress, replica,
                   calls, faults, budget, ledgerCalls, lastCall, wallet>>

SubmitInit ==
    /\ Mounted
    /\ replica = EmptyReplica
    /\ budget = [calls |-> MaxSubmitCalls, faults |-> MaxSubmitFaults]

SubmitNext ==
    \/ \E p \in Procs : \E sampleId \in {SampleIdOf(0), SampleIdOf(PriorTime)} :
       \E step \in 1..4 : \E hash \in SubmitHashes : \E w \in Wallets :
         sendBlockchainTx(p, sampleId, step, hash, w)
    \/ \E p \in Procs : EstimateGas(p)
    \/ \E p \in Procs : SubmitRecordStep(p)
    \/ \E p \in Procs : SendFallback(p)
    \/ \E p \in Procs : SendPayment(p)
    \/ \E p \in Procs : TakeResult(p)

SubmitSpec == SubmitInit /\ [][SubmitNext]_vars

\* the contract alone, called by any account with any arguments
LedgerInit ==
    /\ Mounted
    /\ contractAddress = TRUE
    /\ replica = EmptyReplica
    /\ budget = [calls |-> 0, faults |-> 0]

LedgerNext ==
    \E sampleId \in {SampleIdOf(0), SampleIdOf(1)} : \E step \in CallSteps :
    \E hash \in CallHashes : \E msgSender \in Callers :
      CallRecordStep(sampleId, step, hash, msgSender)

LedgerSpec == LedgerInit /\ [][LedgerNext]_vars

\* the replica server alone, answering any requests in any order
ReplicaSampleIds == {SampleIdOf(0), SampleIdOf(1)}

ReplicaTxHashes == {NoTx, 1}

ReplicaHash == generateHash(<<"payload", 0, "collection">>, 0)

\* app.post('/api/samples') with a sample recordCollection built
CallPostSample(sampleId, txHash) ==
    /\ calls < budget.calls
    /\ calls' = calls + 1
    /\ replica' = PostSample(replica, NewSample(sampleId, ReplicaHash, txHash, 0))
    /\ UNCHANGED <<clock, ledger, events, chainTxs, samples, transactions,
                   isLoading, view, refreshed, contractAddress, ops, faults,
                   budget, ledgerCalls, lastCall, wallet>>

\* app.put('/api/samples/:sampleId/step'): 404 when the sample is not stored
CallPutSampleStep(sampleId, step, txHash) ==
    /\ calls < budget.calls
    /\ calls' = calls + 1
    /\ replica' = IF Find(replica.samples, sampleId) = 0 THEN replica
                  ELSE PutSampleStep(replica, sampleId, step, StatusOf(step),
                                     txHash,
                                     TimelineEntry(step, ReplicaHash, txHash, 0))
    /\ UNCHANGED <<clock, ledger, events, chainTxs, samples, transactions,
                   isLoading, view, refreshed, contractAddress, ops, faults,
                   budget, ledgerCalls, lastCall, wallet>>

\* app.post('/api/transactions')
CallPostTransaction(sampleId, step, txHash) ==
    /\ calls < budget.calls
    /\ calls' = calls + 1
    /\ replica' = PostTransaction(replica,
                     Transaction(TransactionIdOf(0), step, sampleId,
                                 ReplicaHash, txHash, 0))
    /\ UNCHANGED <<clock, ledger, events, chainTxs, samples, transactions,
                   isLoading, view, refreshed, contractAddress, ops, faults,
                   budget, ledgerCalls, lastCall, wallet>>

ReplicaInit ==
    /\ Mounted
    /\ contractAddress = FALSE
    /\ replica = EmptyReplica
    /\ budget = [calls |-> MaxReplicaCalls, faults |-> 0]

ReplicaNext ==
    \/ \E sampleId \in ReplicaSampleIds : \E txHash \in ReplicaTxHashes :
         CallPostSample(sampleId, txHash)
    \/ \E sampleId \in ReplicaSampleIds : \E step \in 2..4 :
       \E txHash \in ReplicaTxHashes : CallPutSampleStep(sampleId, step, txHash)
    \/ \E sampleId \in ReplicaSampleIds : \E step \in 1..4 :
       \E txHash \in ReplicaTxHashes : CallPostTransaction(sampleId, step, txHash)

ReplicaSpec == ReplicaInit /\ [][ReplicaNext]_vars

\* ---------------------------------------------------------- WalletProvider
AMOY_CHAIN_ID == "0x13882"

WalletAccounts == {Account, "0xB"}

ChainIds == {AMOY_CHAIN_ID, "0x1"}

isConnected == wallet.account # Null

\* the four setters of disconnectWallet
disconnected(w) ==
    [w EXCEPT !.account = Null, !.chainId = Null, !.provider = Null,
              !.signer = Null]

WalletStep(w) ==
    /\ wallet' = w
    /\ UNCHANGED <<clock, ledger, events, chainTxs, samples, transactions,
                   isLoading, view, refreshed, contractAddress, replica, ops,
                   calls, faults, budget, ledgerCalls, lastCall>>

\* one more user action or MetaMask event, within the bound
CanHandle == wallet.events < MaxWalletEvents

Handled(w) == [w EXCEPT !.events = @ + 1]

\* connectWallet up to its first await (one call at a time)
connectWallet ==
    /\ wallet.pc = "idle"
    /\ CanHandle
    /\ WalletStep(Handled([wallet EXCEPT !.isConnecting = TRUE,
                                         !.error = Null,
                                         !.pc = "requestAccounts"]))

\* catch and finally of connectWallet
ConnectCatch(w) ==
    [w EXCEPT !.error = "Failed to connect to MetaMask",
              !.isConnecting = FALSE, !.pc = "idle",
              !.accounts = Null, !.currentChainId = Null]

\* eth_requestAccounts answers or is rejected
ConnectAccounts ==
    /\ wallet.pc = "requestAccounts"
    /\ \/ WalletStep(ConnectCatch(wallet))
       \/ \E a \in WalletAccounts :
            WalletStep([wallet EXCEPT !.accounts = a, !.pc = "chainId"])

\* eth_chainId answers or is rejected
ConnectChainId ==
    /\ wallet.pc = "chainId"
    /\ \/ WalletStep(ConnectCatch(wallet))
       \/ \E c \in ChainIds :
            WalletStep([wallet EXCEPT !.currentChainId = c, !.pc = "getSigner"])

\* browserProvider.getSigner() settles: the four setters, then finally
ConnectSigner ==
    /\ wallet.pc = "getSigner"
    /\ \/ WalletStep(ConnectCatch(wallet))
       \/ WalletStep([wallet EXCEPT !.account = wallet.accounts,
                                    !.chainId = wallet.currentChainId,
                                    !.provider = "BrowserProvider",
                                    !.signer = "JsonRpcSigner",
                                    !.isConnecting = FALSE,
                                    !.pc = "idle",
                                    !.accounts = Null,
                                    !.currentChainId = Null])

disconnectWallet ==
    /\ CanHandle
    /\ WalletStep(Handled(disconnected(wallet)))

\* ethereum.on('accountsChanged'): accounts is empty (Null) or starts with an
\* account; the handler sees the account and provider of the last render
handleAccountsChanged(first) ==
    /\ CanHandle
    /\ IF first = Null
       THEN WalletStep(Handled(disconnected(wallet)))
       ELSE WalletStep(Handled([wallet EXCEPT
                                  !.account = first,
                                  !.pending = IF wallet.provider # Null
                                              THEN @ + 1 ELSE @]))

\* ethereum.on('chainChanged')
handleChainChanged(newChainId) ==
    /\ CanHandle
    /\ WalletStep(Handled(IF wallet.account # Null
                          THEN [wallet EXCEPT !.chainId = newChainId,
                                              !.provider = "BrowserProvider",
                                              !.pending = @ + 1]
                          ELSE [wallet EXCEPT !.chainId = newChainId]))

\* a getSigner() promise made by one of the two handlers settles:
\* setSigner(newSigner), or a rejection nobody handles
GetSignerSettles ==
    /\ wallet.pending > 0
    /\ \/ WalletStep([wallet EXCEPT !.pending = @ - 1,
                                    !.signer = "JsonRpcSigner"])
       \/ WalletStep([wallet EXCEPT !.pending = @ - 1])

WalletInit ==
    /\ Mounted
    /\ contractAddress = FALSE
    /\ replica = EmptyReplica
    /\ budget = [calls |-> 0, faults |-> 0]

WalletNext ==
    \/ connectWallet
    \/ ConnectAccounts
    \/ ConnectChainId
    \/ ConnectSigner
    \/ disconnectWallet
    \/ \E first \in WalletAccounts \cup {Null} : handleAccountsChanged(first)
    \/ \E newChainId \in ChainIds : handleChainChanged(newChainId)
    \/ GetSignerSettles

WalletSpec == WalletInit /\ [][WalletNext]_vars

\* ------------------------------------------------------------------ claims
InFlight(p) == ops[p].pc # "idle"

\* the previousHash a step hash was computed from, and its payload
PreviousHashOf(hash) == hash[2][3]

PayloadOf(hash) == hash[2][2]

\* sendBlockchainTx has returned the id of a confirmed recordStep
RecordStepConfirmed(p) ==
    /\ ops[p].pc = "afterSend"
    /\ ops[p].ret = "returned"
    /\ ops[p].txHash # NoTx
    /\ ops[p].sentFallback = 0

\* C1: an operation whose step is not the sample's currentStep + 1 is
\* rejected: no such operation gets past its first checks (so that it could
\* change the sample); in particular recordSequencing on a sample at step 1.
C1_OutOfOrderRejected ==
    \A p \in Procs :
        (InFlight(p) /\ ops[p].step > 1) => ops[p].step = ops[p].seenStep + 1

\* C2: a sample's currentStep never decreases, and a call that changes it
\* increases it by exactly 1.
C2_StepByOne ==
    [][\A i \in 1..Len(samples) :
          (i <= Len(samples') /\ samples'[i].sampleId = samples[i].sampleId)
          => \/ samples'[i].currentStep = samples[i].currentStep
             \/ samples'[i].currentStep = samples[i].currentStep + 1]_vars

\* C3: a sample at currentStep 4 is terminal: no later operation changes its
\* hash chain, its timeline or its status.
C3_TerminalUnchanged ==
    [][\A i \in 1..Len(samples) :
          (i <= Len(samples') /\ samples[i].currentStep = 4
             /\ samples'[i].sampleId = samples[i].sampleId)
          => /\ samples'[i].hashes = samples[i].hashes
             /\ samples'[i].timeline = samples[i].timeline
             /\ samples'[i].status = samples[i].status]_vars

\* C4: every sample of the in-memory list has as many hashes and timeline
\* entries as its currentStep, entry i being step i with the i-th hash.
C4_ChainShape ==
    \A i \in 1..Len(samples) :
        LET sample == samples[i]
        IN  /\ Len(sample.hashes) = sample.currentStep
            /\ Len(sample.timeline) = sample.currentStep
            /\ \A j \in 1..Len(sample.timeline) :
                  /\ sample.timeline[j].step = j
                  /\ j <= Len(sample.hashes)
                  /\ sample.timeline[j].hash = sample.hashes[j]

\* C5: the contract accepts recordStep only for the step after the sample's
\* current on-chain step: every change of a record advances it by one step.
C5_LedgerStepOrder ==
    [][\A s \in SampleIds :
          ledger'[s] # ledger[s]
          => ledger'[s].currentStep = ledger[s].currentStep + 1]_vars

\* C6: the contract is append-only: a hash stored for (sampleId, step) is
\* never changed by a later recordStep.
C6_LedgerAppendOnly ==
    [][\A s \in SampleIds : \A k \in 1..4 :
          HashOfStep(ledger[s], k) # ZeroHash
          => HashOfStep(ledger'[s], k) = HashOfStep(ledger[s], k)]_vars

\* C7: of two concurrent submissions of the same step of a recorded sample
\* with different hashes only one recordStep is confirmed; the other
\* submitter sees its primary path fail.
C7_OneWriterWins ==
    \A p, q \in Procs :
        (p # q /\ RecordStepConfirmed(p) /\ RecordStepConfirmed(q)
           /\ ops[p].sampleId = ops[q].sampleId /\ ops[p].step = ops[q].step
           /\ ops[p].step > 1)
        => ops[p].hash = ops[q].hash

\* C8: at most one operation is in flight per sample: two operations that
\* extend the same sample are never both past the busy check, so no two
\* hashes are built from the same previousHash.
C8_OneInFlightPerSample ==
    \A p, q \in Procs :
        (p # q /\ InFlight(p) /\ InFlight(q)
           /\ ops[p].step > 1 /\ ops[q].step > 1)
        => /\ ops[p].sampleId # ops[q].sampleId
           /\ PreviousHashOf(ops[p].hash) # PreviousHashOf(ops[q].hash)

\* C9: every hash after the first was computed from the hash before it in
\* the same chain, and computing the hash again from the previous hash, the
\* payload and the step's timestamp gives the stored hash.
C9_Recomputable ==
    \A i \in 1..Len(samples) :
        LET sample == samples[i]
        IN  \A j \in 2..Len(sample.hashes) :
              /\ PreviousHashOf(sample.hashes[j]) = sample.hashes[j - 1]
              /\ j <= Len(sample.timeline)
                 => generateHash(<<sample.sampleId,
                                   PayloadOf(sample.hashes[j]),
                                   sample.hashes[j - 1],
                                   sample.timeline[j].timestamp>>, clock)
                    = sample.hashes[j]

\* C10: sendBlockchainTx never throws: whatever the wallet, the contract
\* configuration and the outcomes of the gas estimation, of recordStep and
\* of the fallback, it returns the id of a confirmed transaction or null.
C10_SubmitterNeverThrows ==
    \A p \in Procs :
        /\ ops[p].ret # "threw"
        /\ ops[p].result # "threw"
        /\ ops[p].pc = "afterSend"
           => /\ ops[p].ret = "returned"
              /\ \/ ops[p].txHash = NoTx
                 \/ /\ ops[p].txHash \in 1..Len(chainTxs)
                    /\ chainTxs[ops[p].txHash].ok

\* the gas estimation, recordStep and the fallback all failed, and
\* sendBlockchainTx returned null
C10_Witness ==
    \E p \in Procs :
        /\ ops[p].pc = "afterSend"
        /\ ops[p].ret = "returned"
        /\ ops[p].txHash = NoTx
        /\ ops[p].sentRecordStep = 1
        /\ ops[p].sentFallback = 1
        /\ faults = 3

\* the three checks sendBlockchainTx makes before anything else
WalletReady(w) == w.isConnected /\ w.isAmoyNetwork /\ w.signer

\* between the invocation of sendBlockchainTx and the caller's resumption
InSubmitter(p) ==
    ops[p].pc \in {"estimate", "recordStep", "fallback", "payment", "afterSend"}

\* C11: when the wallet is not connected, not on the Amoy network or has no
\* signer, sendBlockchainTx returns null at once: it never reaches the gas
\* estimation, never sends recordStep and never sends a transfer.
C11_NoAttemptWithoutWallet ==
    \A p \in Procs :
        (InSubmitter(p) /\ ~WalletReady(ops[p].wallet))
        => /\ ops[p].pc = "afterSend"
           /\ ops[p].ret = "returned"
           /\ ops[p].txHash = NoTx
           /\ ops[p].sentRecordStep = 0
           /\ ops[p].sentFallback = 0

\* a connected wallet with a signer on the wrong network got null
C11_Witness ==
    \E p \in Procs :
        /\ ops[p].pc = "afterSend"
        /\ ops[p].wallet.isConnected
        /\ ops[p].wallet.signer
        /\ ~ops[p].wallet.isAmoyNetwork
        /\ ops[p].txHash = NoTx

Rank(pc) ==
    CASE pc = "estimate" -> 3
      [] pc = "recordStep" -> 2
      [] pc = "fallback" -> 1
      [] pc = "payment" -> 1
      [] OTHER -> 0

\* C13: one call sends at most one recordStep and at most one transfer, and
\* every answer or failure of a request brings the call closer to its
\* return: nothing is submitted again.
C13_BoundedSubmissions ==
    /\ [](\A p \in Procs : ops[p].sentRecordStep <= 1 /\ ops[p].sentFallback <= 1)
    /\ [][\A p \in Procs :
            (ops[p].pc \in {"estimate", "recordStep", "fallback", "payment"}
               /\ ops'[p] # ops[p])
            => Rank(ops'[p].pc) < Rank(ops[p].pc)]_vars

\* everything failed: one recordStep and one transfer were sent, no more
C13_Witness ==
    \E p \in Procs :
        /\ ops[p].pc = "afterSend"
        /\ ops[p].sentRecordStep = 1
        /\ ops[p].sentFallback = 1
        /\ ops[p].txHash = NoTx
        /\ faults >= 2

\* C14: whatever the gas estimation answers, and when it fails or times
\* out, the call goes on to submit recordStep; after a failure the gas limit
\* is the default 100000 plus 10%.
C14_EstimateNeverAborts ==
    [][\A p \in Procs :
          (ops[p].pc = "estimate" /\ ops'[p] # ops[p])
          => /\ ops'[p].pc = "recordStep"
             /\ faults' > faults => GasLimit(ops'[p].gas) = 110000]_vars

\* the estimation failed and recordStep is about to be sent with the default
C14_Witness ==
    \E p \in Procs :
        /\ ops[p].pc = "recordStep"
        /\ ops[p].gas = DefaultGas
        /\ faults = 1

\* the samples the client shows and the documents the replica stores
Range(seq) == {seq[i] : i \in 1..Len(seq)}

StoredSamples == Range(samples) \cup Range(replica.samples)

TimelineEntries == UNION {Range(sample.timeline) : sample \in StoredSamples}

\* what a transaction id stands for on the chain
AnchorOf(txHash) == IF txHash = NoTx THEN "none" ELSE chainTxs[txHash].kind

\* what a timeline entry says about its anchoring besides the step's own
\* data and the opaque transaction id
Marks(entry) ==
    [f \in DOMAIN entry \ {"step", "hash", "txHash", "timestamp"} |-> entry[f]]

\* C15: a step anchored only by the fallback transfer is recorded
\* distinguishably from a step whose hash recordStep stored: their timeline
\* entries never carry the same marks.
C15_FallbackDistinguishable ==
    \A e1, e2 \in TimelineEntries :
        (AnchorOf(e1.txHash) = "recordStep" /\ AnchorOf(e2.txHash) = "transfer")
        => Marks(e1) # Marks(e2)

C17_NullStillCompletes ==
    [][\A p \in Procs :
          LET o == ops[p]
          IN  /\ (o.pc = "afterSend" /\ o.ret = "returned" /\ o.txHash = NoTx
                    /\ ops'[p] # o)
                 => /\ ops'[p].pc = (IF o.step = 1 THEN "save" ELSE "put")
                    /\ o.step > 1
                       => /\ \E i \in 1..Len(samples) :
                                samples[i].sampleId = o.sampleId
                          /\ \A i \in 1..Len(samples) :
                                samples[i].sampleId = o.sampleId
                                => /\ i <= Len(samples')
                                   /\ samples'[i].currentStep = o.step
                                   /\ Last(samples'[i].timeline).step = o.step
                                   /\ ~Last(samples'[i].timeline).verified
              /\ (o.pc = "save" /\ o.txHash = NoTx /\ ops'[p] # o)
                 => /\ Len(samples') = Len(samples) + 1
                    /\ Last(samples').sampleId = o.sampleId
                    /\ Last(samples').currentStep = 1
                    /\ ~Last(samples').timeline[1].verified
                    /\ ops'[p].result = "ok"
              /\ (o.pc \in {"put", "postTx"} /\ ops'[p].pc = "idle")
                 => ops'[p].result = "ok"]_vars

\* an operation that got null has ended normally and its sample is at step 2
\* with an unverified entry
C17_Witness ==
    \E p \in Procs : \E sample \in Range(samples) :
        /\ ops[p].pc = "idle"
        /\ ops[p].result = "ok"
        /\ sample.currentStep = 2
        /\ Last(sample.timeline).step = 2
        /\ ~Last(sample.timeline).verified

\* C18: every sample an operation created, in the client's list and in the
\* replica, has one transaction-id slot per completed step: txHashes is as
\* long as currentStep, and slot i holds the id obtained for step i, empty
\* when none was obtained.
C18_TxHashSlots ==
    \A sample \in StoredSamples :
        sample.createdAt # PriorTime
        => /\ Len(sample.txHashes) = sample.currentStep
           /\ \A j \in 1..Len(sample.txHashes) :
                 /\ j <= Len(sample.timeline)
                 /\ sample.txHashes[j] = sample.timeline[j].txHash

\* C19: the replica's step update is idempotent per (sampleId, step): a
\* stored sample never holds two timeline entries for the same step, however
\* often the update of a step is sent.
C19_OneEntryPerStep ==
    \A sample \in Range(replica.samples) :
        \A j, k \in 1..Len(sample.timeline) :
            j # k => sample.timeline[j].step # sample.timeline[k].step

\* C20: a failed write to the replica is fatal to the step: when the POST of
\* the sample or the PUT of the step update fails, the operation does not
\* end normally and the sample does not get the step's hash.
C20_ReplicaFailureFatal ==
    [][\A p \in Procs :
          LET o == ops[p]
          IN  (o.pc \in {"save", "put"} /\ ops'[p].pc = "idle"
                 /\ faults' > faults /\ replica'.samples = replica.samples)
              => /\ ops'[p].result # "ok"
                 /\ \A sample \in Range(samples') :
                       sample.sampleId = o.sampleId
                       => o.hash \notin Range(sample.hashes)]_vars

\* C21: an operation that advances a sample creates exactly one transaction
\* record, and the record reaches the transaction log whatever happens to
\* the sample's step write: the operation never ends after a failed or
\* refused PUT without its transaction stored in the replica.
C21_TransactionLogged ==
    [][\A p \in Procs :
          LET o == ops[p]
          IN  /\ (o.pc = "afterSend" /\ ops'[p].pc = "put")
                 => /\ Len(transactions') = Len(transactions) + 1
                    /\ Last(transactions').hash = o.hash
              /\ (o.pc = "put" /\ ops'[p].pc = "idle")
                 => \E t \in Range(replica'.transactions) :
                       t.id = o.txId /\ t.hash = o.hash]_vars

\* C22: sample ids are unique: the sample list never holds two samples with
\* the same sampleId.
C22_UniqueSampleIds ==
    \A i, j \in 1..Len(samples) :
        i # j => samples[i].sampleId # samples[j].sampleId

\* C23: the hash is a function of the payload, the previous hash and the
\* caller's timestamp: two running operations that hashed the same data hold
\* the same hash.
C23_HashDeterministic ==
    \A p, q \in Procs :
        (InFlight(p) /\ InFlight(q) /\ ops[p].hash[2] = ops[q].hash[2])
        => ops[p].hash = ops[q].hash

\* the StepRecorded events of (sampleId, step), by position in the log
StepEvents(sampleId, step) ==
    {i \in 1..Len(events) : /\ events[i].name = "StepRecorded"
                            /\ events[i].sampleId = sampleId
                            /\ events[i].step = step}

Max(S) == CHOOSE i \in S : \A j \in S : j <= i

Min(S) == CHOOSE i \in S : \A j \in S : i <= j

\* the hash of the last accepted recordStep(sampleId, step, _)
LastRecordedHash(sampleId, step) == events[Max(StepEvents(sampleId, step))].hash

\* C24: verifyStep (a view function) compares with the last recorded hash:
\* once recordStep(s, k, h) was accepted, verifyStep(s, k, h') is true
\* exactly for the h of the last accepted call for (s, k); it is false for any
\* step outside 1..4.
C24_VerifyStepIsEquality ==
    \A s \in SampleIds : \A h \in CallHashes :
        /\ \A k \in 1..4 :
              StepEvents(s, k) # {}
              => (verifyStep(ledger, s, k, h) <=> h = LastRecordedHash(s, k))
        /\ \A k \in CallSteps \ (1..4) : ~verifyStep(ledger, s, k, h)

\* a step was recorded twice with different hashes: verifyStep accepts the
\* second and no longer the first
C24_Witness ==
    \E s \in SampleIds : \E k \in 1..4 :
        /\ Cardinality(StepEvents(s, k)) = 2
        /\ events[Min(StepEvents(s, k))].hash # LastRecordedHash(s, k)
        /\ verifyStep(ledger, s, k, LastRecordedHash(s, k))
        /\ ~verifyStep(ledger, s, k, events[Min(StepEvents(s, k))].hash)

\* C25: getCurrentStep(sampleId) is 0 exactly when no recordStep was ever
\* accepted for the sample, and is in 1..4 otherwise.
C25_CurrentStepZeroIffNew ==
    \A s \in SampleIds :
        LET accepted == \E i \in 1..Len(events) :
                           /\ events[i].name = "StepRecorded"
                           /\ events[i].sampleId = s
        IN  /\ getCurrentStep(ledger, s) = 0 <=> ~accepted
            /\ accepted => getCurrentStep(ledger, s) \in 1..4

\* a call for an untouched sample was reverted while another sample has a
\* recorded step
C25_Witness ==
    /\ lastCall.reverted
    /\ ledgerCalls = 2
    /\ getCurrentStep(ledger, lastCall.sampleId) = 0
    /\ \E s \in SampleIds : getCurrentStep(ledger, s) \in 1..4

\* C26: recordStep with a step outside 1..4 or with a zero hash reverts: no
\* record is created or changed and no event is emitted.
C26_InvalidCallReverts ==
    [][(ledgerCalls' # ledgerCalls
          /\ (lastCall'.step \notin 1..4 \/ lastCall'.hash = ZeroHash))
       => /\ lastCall'.reverted
          /\ ledger' = ledger
          /\ events' = events
          /\ ~Last(chainTxs').ok]_vars

\* a zero hash was refused for a sample that already has a recorded step
C26_Witness ==
    /\ lastCall.reverted
    /\ lastCall.step \in 1..4
    /\ lastCall.hash = ZeroHash
    /\ getCurrentStep(ledger, lastCall.sampleId) > 0

\* C27: the replica mirrors the step hashes: every stored sample document has
\* as many hashes as timeline entries, and that number is its currentStep.
C27_ReplicaMirrorsHashes ==
    \A sample \in Range(replica.samples) :
        /\ Len(sample.hashes) = Len(sample.timeline)
        /\ Len(sample.timeline) = sample.currentStep

\* C28: the busy flag is always released: once a record operation has set
\* isLoading, isLoading eventually becomes false again on every path, when
\* every awaited wallet or network call eventually returns or fails.
C28_BusyReleased == isLoading ~> ~isLoading

\* an operation holds the flag while its PUT request is outstanding
C28_Witness ==
    /\ isLoading
    /\ \E p \in Procs : ops[p].pc = "put"

\* C29: the hash passed to the contract's recordStep for (sampleId, step) is the
\* hash at that step's position in the timeline: whenever a sample holds a
\* step after collection that was appended after a confirmed recordStep, the
\* contract holds the image of that step's hash.
C29_ChainAgreesWithTimeline ==
    \A sample \in Range(samples) : \A entry \in Range(sample.timeline) :
        (entry.step > 1 /\ AnchorOf(entry.txHash) = "recordStep")
        => verifyStep(ledger, sample.sampleId, entry.step, Keccak(entry.hash))

\* C30: whenever the wallet is disconnected (account is null), its signer and
\* its provider are null, in every interleaving of connectWallet,
\* disconnectWallet, accountsChanged and chainChanged, including a getSigner
\* promise that resolves after the disconnect.
C30_DisconnectedHasNoSigner ==
    ~isConnected => (wallet.signer = Null /\ wallet.provider = Null)

=============================================================================
